---- MODULE Spec2Model ----
(***************************************************************************)
(* Model of core_logic/logging_config.py: setup_logging() configures the   *)
(* process-wide root logger (threshold, console sink, optional file sink)  *)
(* and the callers of the __main__ example emit messages through it.       *)
(*                                                                         *)
(* Strings whose letter case matters (the level name) are sequences of     *)
(* one-character strings, so that str.upper() is computed, not assumed.    *)
(***************************************************************************)
EXTENDS Integers, Sequences, FiniteSets, TLC

VARIABLES
    level,      \* root logger's own level (logging.getLogger().level)
    handlers,   \* root logger's handler list, in attachment order
    stdout,     \* lines written to sys.stdout
    stderr,     \* lines written to sys.stderr
    fs,         \* file system: path -> [exists, lines]
    last,       \* the operation performed last
    nops,       \* number of operations performed so far
    calls,      \* history: the setup_logging calls made, with their outcomes
    before      \* history: the logging state just before the latest call

vars == <<level, handlers, stdout, stderr, fs, last, nops, calls, before>>

---------------------------------------------------------------------------
(* Bounds *)

\* operations (calls and emitted messages) in a run of Spec
MaxOps == 3
\* setup_logging calls in a run of SpecLevels
MaxCalls == 2

---------------------------------------------------------------------------
(* Strings and str.upper() *)

LowerLetters ==
    <<"a","b","c","d","e","f","g","h","i","j","k","l","m",
      "n","o","p","q","r","s","t","u","v","w","x","y","z">>

UpperLetters ==
    <<"A","B","C","D","E","F","G","H","I","J","K","L","M",
      "N","O","P","Q","R","S","T","U","V","W","X","Y","Z">>

UpperChar(c) ==
    IF \E i \in DOMAIN LowerLetters : LowerLetters[i] = c
    THEN UpperLetters[CHOOSE i \in DOMAIN LowerLetters : LowerLetters[i] = c]
    ELSE c

\* faulty variant: the name is looked up as given, without upper()
upper_Identity(s) == s

\* str.upper(): every cased character is replaced by its upper-case form
upper(s) == [i \in DOMAIN s |-> UpperChar(s[i])]

---------------------------------------------------------------------------
(* The logging module's namespace, as getattr(logging, NAME, default) sees *)
(* it: the upper-case attributes of the module.  An attribute is either an *)
(* integer or something else (BASIC_FORMAT is a format string).            *)

IntAttr(n) == [isInt |-> TRUE, int |-> n]
StrAttr == [isInt |-> FALSE, int |-> 0]

ModuleAttrs ==
    { << <<"C","R","I","T","I","C","A","L">>, IntAttr(50) >>,
      << <<"F","A","T","A","L">>,             IntAttr(50) >>,
      << <<"E","R","R","O","R">>,             IntAttr(40) >>,
      << <<"W","A","R","N","I","N","G">>,     IntAttr(30) >>,
      << <<"W","A","R","N">>,                 IntAttr(30) >>,
      << <<"I","N","F","O">>,                 IntAttr(20) >>,
      << <<"D","E","B","U","G">>,             IntAttr(10) >>,
      << <<"N","O","T","S","E","T">>,         IntAttr(0) >>,
      << <<"B","A","S","I","C","_","F","O","R","M","A","T">>, StrAttr >> }

HasAttr(name) == \E a \in ModuleAttrs : a[1] = name

\* getattr(logging, name, default)
getattr(name, default) ==
    IF HasAttr(name)
    THEN (CHOOSE a \in ModuleAttrs : a[1] = name)[2]
    ELSE default

\* logging.DEBUG ... logging.CRITICAL, the severities of the module
LevelNo(name) == getattr(name, StrAttr).int

DEBUG == LevelNo(<<"D","E","B","U","G">>)
INFO == LevelNo(<<"I","N","F","O">>)
WARNING == LevelNo(<<"W","A","R","N","I","N","G">>)
ERROR == LevelNo(<<"E","R","R","O","R">>)
CRITICAL == LevelNo(<<"C","R","I","T","I","C","A","L">>)
NOTSET == LevelNo(<<"N","O","T","S","E","T">>)

\* logging.getLevelName(levelno) for the five severities
LevelName(levelno) ==
    CASE levelno = DEBUG -> "DEBUG"
      [] levelno = INFO -> "INFO"
      [] levelno = WARNING -> "WARNING"
      [] levelno = ERROR -> "ERROR"
      [] levelno = CRITICAL -> "CRITICAL"
      [] OTHER -> "Level"

\* Logger.setLevel -> _checkLevel: an int is accepted as is; a str must be
\* a registered level name, and the only str getattr can return here
\* (BASIC_FORMAT) is not one: ValueError.
checkLevelOk(attr) == attr.isInt

---------------------------------------------------------------------------
(* Handlers, formatters and records *)

\* The two paths the callers pass as log_file: one that can be opened for
\* appending and one that cannot (its directory does not exist).
GoodPath == "t.log"
BadPath == "/nonexistent/x.log"
Paths == {GoodPath, BadPath}

\* open(path, 'a') succeeds
CanOpen(path) == path = GoodPath

\* the formatter built at lines 10-13
AppFormatter == "%(asctime)s - %(name)s - %(levelname)s - %(message)s"
\* logging.BASIC_FORMAT, used by basicConfig()
BasicFormatter == "%(levelname)s:%(name)s:%(message)s"
\* a handler without a formatter (logging.lastResort)
DefaultFormatter == "%(message)s"

\* faulty variant: the console handler filters at WARNING by itself
StreamHandler_Warning(stream, fmt) ==
    [stream |-> stream, path |-> "", level |-> WARNING, formatter |-> fmt]

\* logging.StreamHandler(stream) followed by setFormatter: level NOTSET
StreamHandler(stream, fmt) ==
    [stream |-> stream, path |-> "", level |-> NOTSET, formatter |-> fmt]

\* logging.FileHandler(path) followed by setFormatter: level NOTSET
FileHandler(path, fmt) ==
    [stream |-> "file", path |-> path, level |-> NOTSET, formatter |-> fmt]

\* logging.lastResort: a stderr handler of level WARNING
lastResort ==
    [stream |-> "stderr", path |-> "", level |-> WARNING,
     formatter |-> DefaultFormatter]

\* A message: its fixed text and the value interpolated by the f-string.
Msg(text, file, lvl) == [text |-> text, file |-> file, lvl |-> lvl]

\* LogRecord made by Logger._log
LogRecord(name, levelno, msg) == [name |-> name, levelno |-> levelno, msg |-> msg]

\* Formatter.format: the fields of the line, in the order of the format
\* string (the timestamp itself is not modelled, only its presence).
format(fmt, record) ==
    CASE fmt = AppFormatter ->
            [asctime |-> TRUE, name |-> record.name,
             levelname |-> LevelName(record.levelno), message |-> record.msg]
      [] fmt = BasicFormatter ->
            [asctime |-> FALSE, name |-> record.name,
             levelname |-> LevelName(record.levelno), message |-> record.msg]
      [] OTHER ->
            [asctime |-> FALSE, name |-> "", levelname |-> "",
             message |-> record.msg]

---------------------------------------------------------------------------
(* The logging state st = [level, handlers, stdout, stderr, fs] and the    *)
(* pure steps of the logging module on it.                                 *)

\* faulty variant: the file is opened with mode 'w' and truncated
OpenAppend_Truncate(files, path) ==
    [files EXCEPT ![path] = [exists |-> TRUE, lines |-> <<>>]]

\* open(path, 'a') in FileHandler.__init__: creates the file if absent and
\* leaves existing content alone
OpenAppend(files, path) ==
    [files EXCEPT ![path] = [exists |-> TRUE, lines |-> files[path].lines]]

\* StreamHandler.emit: write the formatted line to the handler's stream
\* (a FileHandler's stream is its file, opened for appending)
HandlerEmit(h, record, st) ==
    LET line == format(h.formatter, record)
    IN CASE h.stream = "stdout" -> [st EXCEPT !.stdout = Append(@, line)]
         [] h.stream = "stderr" -> [st EXCEPT !.stderr = Append(@, line)]
         [] OTHER -> [st EXCEPT !.fs[h.path].lines = Append(@, line)]

\* Handler.handle guarded as in Logger.callHandlers:
\* if record.levelno >= hdlr.level: hdlr.handle(record)
HandlerHandle(h, record, st) ==
    IF record.levelno >= h.level THEN HandlerEmit(h, record, st) ELSE st

\* the loop of Logger.callHandlers over the root logger's handlers
RECURSIVE CallEach(_, _, _)
CallEach(hs, record, st) ==
    IF hs = <<>> THEN st
    ELSE CallEach(Tail(hs), record, HandlerHandle(Head(hs), record, st))

\* Logger.callHandlers: a child logger has no handlers and propagates to
\* the root; when no handler is found at all, lastResort is used.
callHandlers(record, st) ==
    IF st.handlers = <<>>
    THEN HandlerHandle(lastResort, record, st)
    ELSE CallEach(st.handlers, record, st)

\* Logger.getEffectiveLevel of the root logger or of a child without a
\* level of its own: the root's level, NOTSET if it has none
getEffectiveLevel(st) == IF st.level # 0 THEN st.level ELSE NOTSET

\* Logger.isEnabledFor
isEnabledFor(levelno, st) == levelno >= getEffectiveLevel(st)

\* Logger.log on logger `name`: filtered by the threshold, then handled
LoggerLog(name, levelno, msg, st) ==
    IF isEnabledFor(levelno, st)
    THEN callHandlers(LogRecord(name, levelno, msg), st)
    ELSE st

\* logging.basicConfig() without arguments: a stderr handler with
\* BASIC_FORMAT is attached if the root logger has none
basicConfig(st) ==
    IF st.handlers = <<>>
    THEN [st EXCEPT !.handlers = <<StreamHandler("stderr", BasicFormatter)>>]
    ELSE st

\* the module-level logging.debug / info / warning: basicConfig() when the
\* root logger has no handler, then root.log
logging_log(levelno, msg, st) ==
    LoggerLog("root", levelno, msg,
              IF Len(st.handlers) = 0 THEN basicConfig(st) ELSE st)

---------------------------------------------------------------------------
(* setup_logging, statement by statement *)

\* line 8: getattr(logging, log_level_str.upper(), logging.INFO)
log_level(log_level_str) == getattr(upper(log_level_str), IntAttr(INFO))

\* faulty variant: the commented-out loop of lines 23-24 is active and the
\* existing handlers are removed first
ConfigureRoot_Clearing(levelno, st) ==
    [st EXCEPT !.level = levelno,
               !.handlers = <<StreamHandler("stdout", AppFormatter)>>]

\* lines 19-29: logger.setLevel(log_level), then a new stdout handler with
\* the formatter is appended to the root logger's handlers (the loop that
\* would clear the existing handlers is commented out)
ConfigureRoot(levelno, st) ==
    [st EXCEPT !.level = levelno,
               !.handlers = Append(@, StreamHandler("stdout", AppFormatter))]

\* faulty variant: the message of line 35 is logged before the file
\* handler is attached
AttachFile_LogFirst(log_file, st) ==
    LET s1 == logging_log(INFO, Msg("Logging also to file: ", log_file, <<>>), st)
    IN [s1 EXCEPT !.fs = OpenAppend(@, log_file),
                  !.handlers = Append(@, FileHandler(log_file, AppFormatter))]

\* lines 32-35, when the file can be opened: the file is opened for
\* appending, the handler is appended, and only then the message is logged
AttachFile(log_file, st) ==
    logging_log(INFO, Msg("Logging also to file: ", log_file, <<>>),
        [st EXCEPT !.fs = OpenAppend(@, log_file),
                   !.handlers = Append(@, FileHandler(log_file, AppFormatter))])

\* faulty variant: line 37 logs with logging.debug
LogInitialized_Debug(log_level_str, st) ==
    logging_log(DEBUG, Msg("Logging initialized with level ", "", log_level_str), st)

\* line 37
LogInitialized(log_level_str, st) ==
    logging_log(INFO, Msg("Logging initialized with level ", "", log_level_str), st)

\* faulty variant: the file sink is attached whatever log_to_file is
setup_logging_run_AlwaysFile(log_level_str, log_to_file, log_file, st) ==
    LET lvl == log_level(log_level_str)
    IN IF ~checkLevelOk(lvl)
       THEN [st |-> st, outcome |-> "ValueError"]
       ELSE LET s1 == ConfigureRoot(lvl.int, st)
            IN IF CanOpen(log_file)
               THEN [st |-> LogInitialized(log_level_str, AttachFile(log_file, s1)),
                     outcome |-> "returned"]
               ELSE [st |-> s1, outcome |-> "OSError"]

\* faulty variant: the file is opened before the root logger is touched,
\* so a failure to open it leaves the logging state as it was
setup_logging_run_OpenFirst(log_level_str, log_to_file, log_file, st) ==
    LET lvl == log_level(log_level_str)
    IN IF ~checkLevelOk(lvl)
       THEN [st |-> st, outcome |-> "ValueError"]
       ELSE IF log_to_file /\ ~CanOpen(log_file)
            THEN [st |-> st, outcome |-> "OSError"]
            ELSE LET s1 == ConfigureRoot(lvl.int, st)
                 IN IF log_to_file
                    THEN [st |-> LogInitialized(log_level_str, AttachFile(log_file, s1)),
                          outcome |-> "returned"]
                    ELSE [st |-> LogInitialized(log_level_str, s1),
                          outcome |-> "returned"]

\* The whole call: the state it leaves and how it ended.  ValueError is
\* raised by setLevel (line 20) before anything is changed; OSError by
\* logging.FileHandler (line 32) after lines 19-29 have taken effect.
setup_logging_run(log_level_str, log_to_file, log_file, st) ==
    LET lvl == log_level(log_level_str)
    IN IF ~checkLevelOk(lvl)
       THEN [st |-> st, outcome |-> "ValueError"]
       ELSE LET s1 == ConfigureRoot(lvl.int, st)
            IN IF log_to_file
               THEN IF CanOpen(log_file)
                    THEN [st |-> LogInitialized(log_level_str, AttachFile(log_file, s1)),
                          outcome |-> "returned"]
                    ELSE [st |-> s1, outcome |-> "OSError"]
               ELSE [st |-> LogInitialized(log_level_str, s1),
                     outcome |-> "returned"]

---------------------------------------------------------------------------
(* Inputs *)

\* level names the callers pass in a run of Spec
LevelStrs ==
    { <<"d","e","b","u","g">>, <<"I","N","F","O">>,
      <<"W","a","r","n","i","n","g">>, <<"E","R","R","O","R">>,
      <<"n","o","t","s","e","t">>,
      <<"b","a","s","i","c","_","f","o","r","m","a","t">> }

\* level names the callers pass in a run of SpecLevels: the five
\* severities in several letter cases, unknown names, and names that
\* upper-case to other attributes of the logging module
AllLevelStrs ==
    { <<"d","e","b","u","g">>, <<"D","E","B","U","G">>,
      <<"I","n","f","o">>, <<"I","N","F","O">>,
      <<"W","a","r","n","i","n","g">>, <<"W","A","R","N","I","N","G">>,
      <<"e","r","r","o","r">>, <<"E","R","R","O","R">>,
      <<"c","R","i","T","i","C","a","L">>, <<"C","R","I","T","I","C","A","L">>,
      <<"v","e","r","b","o","s","e">>, <<>>,
      <<"n","o","t","s","e","t">>, <<"w","a","r","n">>,
      <<"F","A","T","A","L">>,
      <<"b","a","s","i","c","_","f","o","r","m","a","t">> }

\* severities of the messages of lines 42-44
EmitLevels == {DEBUG, INFO, WARNING}

\* severities a caller's own logger emits at (line 46 and above)
SubLoggerLevels == {INFO, WARNING}

\* the message a caller emits
CallerMsg == Msg("This is a message.", "", <<>>)

State == [level |-> level, handlers |-> handlers, stdout |-> stdout,
          stderr |-> stderr, fs |-> fs]

NoOp == [op |-> "none", name |-> "", levelno |-> 0]

---------------------------------------------------------------------------
(* The state machine *)

\* a line left in the log file by an earlier run of the program
OldLine == [asctime |-> TRUE, name |-> "root", levelname |-> "INFO",
            message |-> Msg("earlier run", "", <<>>)]

\* The logging module right after import: the root logger has level
\* WARNING and no handlers.  The good path is absent or already holds a
\* line written by an earlier run.
Init ==
    /\ level = WARNING
    /\ handlers = <<>>
    /\ stdout = <<>>
    /\ stderr = <<>>
    /\ fs \in { [p \in Paths |-> [exists |-> FALSE, lines |-> <<>>]],
                [p \in Paths |-> IF p = GoodPath
                                 THEN [exists |-> TRUE, lines |-> <<OldLine>>]
                                 ELSE [exists |-> FALSE, lines |-> <<>>]] }
    /\ last = NoOp
    /\ nops = 0
    /\ calls = <<>>
    /\ before = [level |-> WARNING, handlers |-> <<>>, stdout |-> <<>>,
                 stderr |-> <<>>, fs |-> fs]

Adopt(st) ==
    /\ level' = st.level
    /\ handlers' = st.handlers
    /\ stdout' = st.stdout
    /\ stderr' = st.stderr
    /\ fs' = st.fs

\* a call setup_logging(log_level_str, log_to_file, log_file); log_file is
\* recorded only when the call uses it
setup_logging(log_level_str, log_to_file, log_file) ==
    LET r == setup_logging_run(log_level_str, log_to_file, log_file, State)
    IN /\ Adopt(r.st)
       /\ last' = [NoOp EXCEPT !.op = "setup_logging"]
       /\ nops' = nops + 1
       /\ calls' = Append(calls,
                      [log_level_str |-> log_level_str,
                       log_to_file |-> log_to_file,
                       log_file |-> IF log_to_file THEN log_file ELSE "",
                       outcome |-> r.outcome])
       /\ before' = State

SetupLogging ==
    /\ nops < MaxOps
    /\ \E s \in LevelStrs, f \in BOOLEAN, p \in Paths : setup_logging(s, f, p)

SetupLoggingAnyLevel ==
    /\ nops < MaxCalls
    /\ \E s \in AllLevelStrs, f \in BOOLEAN, p \in Paths : setup_logging(s, f, p)

\* lines 42-44: logging.debug(...), logging.info(...), logging.warning(...)
logging_emit(levelno) ==
    /\ Adopt(logging_log(levelno, CallerMsg, State))
    /\ last' = [op |-> "emit", name |-> "root", levelno |-> levelno]
    /\ nops' = nops + 1
    /\ UNCHANGED <<calls, before>>

RootEmit ==
    /\ nops < MaxOps
    /\ \E l \in EmitLevels : logging_emit(l)

\* lines 45-46: sub_logger = logging.getLogger("my_module"); sub_logger.info(...)
sub_logger_log(levelno) ==
    /\ Adopt(LoggerLog("my_module", levelno, CallerMsg, State))
    /\ last' = [op |-> "emit", name |-> "my_module", levelno |-> levelno]
    /\ nops' = nops + 1
    /\ UNCHANGED <<calls, before>>

SubLoggerEmit ==
    /\ nops < MaxOps
    /\ \E l \in SubLoggerLevels : sub_logger_log(l)

Next == SetupLogging \/ RootEmit \/ SubLoggerEmit

Spec == Init /\ [][Next]_vars

NextLevels == SetupLoggingAnyLevel

SpecLevels == Init /\ [][NextLevels]_vars

---------------------------------------------------------------------------
(* Vocabulary of the properties *)

IsPrefix(a, b) == Len(a) <= Len(b) /\ SubSeq(b, 1, Len(a)) = a

Rep(x, n) == [i \in 1..n |-> x]

\* handlers of hs writing to the console stream `stream`
NumHandlers(hs, stream) ==
    Cardinality({i \in DOMAIN hs : hs[i].stream = stream})

\* file handlers of hs writing to `path`
NumFileHandlers(hs, path) ==
    Cardinality({i \in DOMAIN hs : hs[i].stream = "file" /\ hs[i].path = path})

\* calls made so far that ended with `outcome`
NumCalls(outcome) ==
    Cardinality({i \in DOMAIN calls : calls[i].outcome = outcome})

\* calls among the first n that returned and attached a file sink for `path`
NumFileCalls(n, path) ==
    Cardinality({i \in 1..n : /\ calls[i].outcome = "returned"
                              /\ calls[i].log_to_file
                              /\ calls[i].log_file = path})

LastCall == calls[Len(calls)]

\* the operation just performed was a call of setup_logging
JustCalled == last.op = "setup_logging"

\* the current threshold
Threshold == getEffectiveLevel(State)

\* the line a sink with the application's formatter writes for the
\* caller's latest message
CallerLine == format(AppFormatter, LogRecord(last.name, last.levelno, CallerMsg))

\* the lines the initializer writes for the call c
AlsoLine(c) ==
    format(AppFormatter,
           LogRecord("root", 20, Msg("Logging also to file: ", c.log_file, <<>>)))
InitLine(c) ==
    format(AppFormatter,
           LogRecord("root", 20,
                     Msg("Logging initialized with level ", "", c.log_level_str)))

\* the spellings of the five standard severity names among the inputs,
\* each with the severity it names
NamedSeverity ==
    { << <<"d","e","b","u","g">>, 10 >>, << <<"D","E","B","U","G">>, 10 >>,
      << <<"I","n","f","o">>, 20 >>, << <<"I","N","F","O">>, 20 >>,
      << <<"W","a","r","n","i","n","g">>, 30 >>,
      << <<"W","A","R","N","I","N","G">>, 30 >>,
      << <<"e","r","r","o","r">>, 40 >>, << <<"E","R","R","O","R">>, 40 >>,
      << <<"c","R","i","T","i","C","a","L">>, 50 >>,
      << <<"C","R","I","T","I","C","A","L">>, 50 >> }

StandardSpellings == {v[1] : v \in NamedSeverity}

---------------------------------------------------------------------------
(* C1: for every valid level name, in any letter case, and whatever calls  *)
(* came before, after setup_logging returns the root logger's effective    *)
(* threshold is the severity the name stands for.                          *)
C1_ThresholdIsRequestedLevel ==
    (JustCalled /\ LastCall.outcome = "returned") =>
        \A v \in NamedSeverity :
            LastCall.log_level_str = v[1] => Threshold = v[2]

\* a lower-case name is honoured after an earlier call with another level
C1_Witness ==
    /\ Len(calls) = 2
    /\ calls[1].outcome = "returned"
    /\ calls[1].log_level_str = <<"E","R","R","O","R">>
    /\ calls[2].outcome = "returned"
    /\ calls[2].log_level_str = <<"d","e","b","u","g">>
    /\ level = 10

(* C2: for any level name that is not a standard severity name,            *)
(* setup_logging does not fail because of it and the effective threshold   *)
(* after the call is INFO.                                                 *)
C2_UnrecognizedDefaultsToInfo ==
    (JustCalled /\ LastCall.log_level_str \notin StandardSpellings) =>
        /\ LastCall.outcome # "ValueError"
        /\ Threshold = 20

\* some call of setup_logging has set the threshold and attached a sink
Configured == \E i \in DOMAIN calls : calls[i].outcome # "ValueError"

(* C3: after setup_logging, a message emitted at severity s is written to  *)
(* every attached sink if s is at or above the threshold and to no sink if *)
(* it is below: one line per attached handler on its stream or file, or    *)
(* nothing anywhere.                                                       *)
C3_SameFilterForEverySink ==
    [][ (Configured /\ last'.op = "emit" /\ nops' = nops + 1) =>
          LET s == last'.levelno
              rec == LogRecord(last'.name, s, CallerMsg)
          IN IF s >= Threshold
             THEN /\ stdout' = stdout \o Rep(format(AppFormatter, rec),
                                             NumHandlers(handlers', "stdout"))
                  /\ stderr' = stderr \o Rep(format(BasicFormatter, rec),
                                             NumHandlers(handlers', "stderr"))
                  /\ \A p \in Paths :
                        fs'[p].lines = fs[p].lines \o
                            Rep(format(AppFormatter, rec),
                                NumFileHandlers(handlers', p))
             ELSE /\ stdout' = stdout
                  /\ stderr' = stderr
                  /\ fs' = fs ]_vars

\* level INFO with file logging on: an INFO message is in both sinks
C3_Witness ==
    /\ last.op = "emit"
    /\ last.levelno = 20
    /\ level = 20
    /\ NumFileHandlers(handlers, GoodPath) = 1
    /\ stdout # <<>>
    /\ stdout[Len(stdout)] = CallerLine
    /\ fs[GoodPath].lines # <<>>
    /\ fs[GoodPath].lines[Len(fs[GoodPath].lines)] = CallerLine

\* setup_logging was called once, with file logging on a path absent
\* beforehand, it returned, and then the caller emitted exactly one
\* message at or above the threshold
OnceThenOneMessage ==
    /\ Len(calls) = 1
    /\ nops = 2
    /\ last.op = "emit"
    /\ calls[1].log_to_file
    /\ calls[1].outcome = "returned"
    /\ ~before.fs[calls[1].log_file].exists
    /\ last.levelno >= Threshold

(* C4, as stated: after one call with file logging on path P and one       *)
(* message at or above the threshold, P holds exactly one line, the        *)
(* caller's message.                                                       *)
C4_ExactlyOneLine ==
    OnceThenOneMessage =>
        LET f == fs[calls[1].log_file]
        IN /\ f.exists
           /\ Len(f.lines) = 1
           /\ f.lines[1] = CallerLine

(* C4, amended: P exists and its last line is the caller's message; it is  *)
(* the only line when the threshold is above INFO, and it follows the      *)
(* initializer's two lines when the threshold is INFO or lower.            *)
C4_CallerLineLast ==
    OnceThenOneMessage =>
        LET f == fs[calls[1].log_file]
        IN /\ f.exists
           /\ f.lines = IF Threshold <= 20
                        THEN <<AlsoLine(calls[1]), InitLine(calls[1]), CallerLine>>
                        ELSE <<CallerLine>>

C4_Witness ==
    /\ OnceThenOneMessage
    /\ Len(fs[calls[1].log_file].lines) = 3

(* C5, as stated: when the latest call had log_to_file false, neither the  *)
(* call nor any message emitted after it creates or writes any file,       *)
(* whatever calls preceded it.                                             *)
C5_NoFileWritten ==
    (calls # <<>> /\ ~LastCall.log_to_file) => fs = before.fs

(* C5, amended: when the latest call had log_to_file false, it attached no *)
(* file sink and no file has been created since; a file has been appended  *)
(* to only if an earlier call with log_to_file true attached a sink for it.*)
C5_NoNewFileSink ==
    (calls # <<>> /\ ~LastCall.log_to_file) =>
        \A p \in Paths :
            /\ NumFileHandlers(handlers, p) = NumFileHandlers(before.handlers, p)
            /\ fs[p].exists = before.fs[p].exists
            /\ IsPrefix(before.fs[p].lines, fs[p].lines)
            /\ fs[p] # before.fs[p] => NumFileCalls(Len(calls) - 1, p) > 0

\* a call without file logging after one with it: the earlier sink's file
\* has grown
C5_Witness ==
    /\ Len(calls) = 2
    /\ calls[1].log_to_file
    /\ ~calls[2].log_to_file
    /\ calls[2].outcome = "returned"
    /\ fs[GoodPath] # before.fs[GoodPath]

(* C6: setup_logging never removes or replaces a sink.  After calls that   *)
(* all succeeded, n of them and k with file logging, the root logger holds *)
(* n stdout sinks and k file sinks, and a message that passes the          *)
(* threshold is written n times to stdout and once per file sink to its    *)
(* file.                                                                   *)
C6_SinksAccumulate ==
    [][ /\ IsPrefix(handlers, handlers')
        /\ (NumCalls("OSError"))' = 0 =>
              /\ NumHandlers(handlers', "stdout") = (NumCalls("returned"))'
              /\ \A p \in Paths :
                    NumFileHandlers(handlers', p) = (NumFileCalls(Len(calls), p))'
        /\ ( /\ last'.op = "emit"
             /\ nops' = nops + 1
             /\ last'.levelno >= Threshold
             /\ NumCalls("OSError") = 0 ) =>
              LET line == format(AppFormatter,
                                 LogRecord(last'.name, last'.levelno, CallerMsg))
              IN /\ stdout' = stdout \o Rep(line, NumCalls("returned"))
                 /\ \A p \in Paths :
                       fs'[p].lines = fs[p].lines \o
                           Rep(line, NumFileCalls(Len(calls), p)) ]_vars

\* two successful calls, then a message: it is on stdout twice
C6_Witness ==
    /\ NumCalls("returned") = 2
    /\ NumCalls("OSError") = 0
    /\ last.op = "emit"
    /\ NumHandlers(handlers, "stdout") = 2
    /\ Len(stdout) >= 2
    /\ stdout[Len(stdout)] = CallerLine
    /\ stdout[Len(stdout) - 1] = CallerLine

(* C7: if file logging is enabled and the path cannot be opened, the call  *)
(* fails with the error of the file-sink creation step, no file sink is    *)
(* attached and neither initializer message is emitted.                    *)
C7_FailsAtFileSink ==
    (JustCalled /\ LastCall.log_to_file /\ ~CanOpen(LastCall.log_file)) =>
        /\ LastCall.outcome = "OSError"
        /\ \A p \in Paths :
              NumFileHandlers(handlers, p) = NumFileHandlers(before.handlers, p)
        /\ stdout = before.stdout
        /\ stderr = before.stderr
        /\ fs = before.fs

(* C8: the file sink appends.  No step truncates or rewrites a file: what  *)
(* a file held stays a prefix of what it holds; and a call with file       *)
(* logging on path P that returns leaves P existing, created if absent,    *)
(* also when P was already attached by an earlier call.                    *)
C8_FileSinkAppends ==
    [][ /\ \A p \in Paths :
              /\ fs[p].exists => fs'[p].exists
              /\ IsPrefix(fs[p].lines, fs'[p].lines)
        /\ ( /\ last'.op = "setup_logging"
             /\ nops' = nops + 1
             /\ LastCall'.log_to_file
             /\ LastCall'.outcome = "returned" ) =>
              /\ fs'[LastCall'.log_file].exists
              /\ NumFileHandlers(handlers', LastCall'.log_file) =
                    NumFileHandlers(handlers, LastCall'.log_file) + 1 ]_vars

\* a file with earlier content, attached by two calls, then written to
C8_Witness ==
    /\ NumFileCalls(Len(calls), GoodPath) = 2
    /\ last.op = "emit"
    /\ Len(fs[GoodPath].lines) > 1
    /\ fs[GoodPath].lines[1] = OldLine
    /\ fs[GoodPath].lines[Len(fs[GoodPath].lines)] = CallerLine

(* C9: when the call fails because the file sink cannot be opened, the     *)
(* threshold is already the requested level and a new console sink is      *)
(* already attached, and both stay after the error.                        *)
C9_FailureKeepsLevelAndConsole ==
    (JustCalled /\ LastCall.outcome = "OSError") =>
        /\ level = log_level(LastCall.log_level_str).int
        /\ handlers = Append(before.handlers, StreamHandler("stdout", AppFormatter))
        /\ NumHandlers(handlers, "stdout") =
              NumHandlers(before.handlers, "stdout") + 1

\* a retry after a failure: two console sinks
C9_Witness ==
    /\ Len(calls) = 2
    /\ calls[1].outcome = "OSError"
    /\ calls[2].outcome = "OSError"
    /\ calls[2].log_level_str = <<"d","e","b","u","g">>
    /\ level = 10
    /\ NumHandlers(handlers, "stdout") = 2

\* what a call that returned has written through n sinks of one kind:
\* each of its messages n times, in the order of lines 35 and 37
InitializerLines(c, n) ==
    IF Threshold > 20 THEN <<>>
    ELSE IF c.log_to_file
         THEN Rep(AlsoLine(c), n) \o Rep(InitLine(c), n)
         ELSE Rep(InitLine(c), n)

(* C10: a call that returns emits, through the sinks it has just attached, *)
(* 'Logging also to file' (file logging only) and then 'Logging            *)
(* initialized', to the console and to the file, if and only if the        *)
(* threshold is INFO or lower; at WARNING or above it writes nothing.      *)
C10_InitializerMessages ==
    (JustCalled /\ LastCall.outcome = "returned") =>
        LET c == LastCall
        IN /\ stdout = before.stdout \o
                  InitializerLines(c, NumHandlers(handlers, "stdout"))
           /\ c.log_to_file =>
                  fs[c.log_file].lines = before.fs[c.log_file].lines \o
                      InitializerLines(c, NumFileHandlers(handlers, c.log_file))
           /\ Threshold <= 20 =>
                  /\ stdout # <<>>
                  /\ c.log_to_file => fs[c.log_file].lines # <<>>
           /\ Threshold > 20 =>
                  /\ stdout = before.stdout
                  /\ stderr = before.stderr
                  /\ \A p \in Paths : fs[p].lines = before.fs[p].lines

\* a first call at INFO with file logging: both lines, in order, in both
\* sinks
C10_Witness ==
    /\ JustCalled
    /\ Len(calls) = 1
    /\ LastCall.outcome = "returned"
    /\ LastCall.log_to_file
    /\ level = 20
    /\ stdout = <<AlsoLine(LastCall), InitLine(LastCall)>>
    /\ ~before.fs[GoodPath].exists
    /\ fs[GoodPath].lines = <<AlsoLine(LastCall), InitLine(LastCall)>>

====
